---- MODULE Spec2Model ----
(***************************************************************************)
(* GetYourGitHubProjects (src/index.ts): fetchRepositoryFiles and the      *)
(* rate-limit-aware fetch it is built on, as a state machine.              *)
(*                                                                         *)
(* One fetchWithRateLimit call chain exists per URL: call 0 is the chain   *)
(* getRepos starts, call i >= 1 the chain fetchProjectDetails starts for   *)
(* the i-th listed repository (call 1 for the named repository in          *)
(* single-repository mode).  Time is in milliseconds.                      *)
(***************************************************************************)
EXTENDS Integers, Sequences, FiniteSets, TLC

VARIABLES
    reponame,     \* this.reponame ("" when not configured)
    filename,     \* this.filename
    now,          \* Date.now()
    opPc,         \* position of fetchRepositoryFiles
    call,         \* the fetchWithRateLimit call chains
    repos,        \* what getRepos returned
    result,       \* what fetchRepositoryFiles returned
    listerCalls   \* how often getRepos was called

vars == <<reponame, filename, now, opPc, call, repos, result, listerCalls>>

(* ---------------------------------------------------------------- bounds *)
MaxRepos == 2          \* repositories in a listing
MaxFailures == 5       \* non-rate-limited failure responses per operation
MaxRateLimited == 1    \* rate-limited responses per operation
MaxResetDelta == 1     \* seconds a reset timestamp lies ahead of the clock

Calls == 0 .. MaxRepos

Max(a, b) == IF a >= b THEN a ELSE b

(* ------------------------------------------------------------- JS values *)
Null == [t |-> "null", v |-> "null"]
False == [t |-> "boolean", v |-> "false"]
Zero == [t |-> "number", v |-> "0"]
EmptyString == [t |-> "string", v |-> ""]
Obj(d) == [t |-> "object", v |-> d]
Arr(s) == [t |-> "array", v |-> s]

\* Mutant: only null counts as falsy.
TruthyUnlessNull(x) == x.t # "null"

\* ToBoolean: `if (x)`, `!x`, filter(Boolean)
Truthy(x) ==
    CASE x.t = "null" -> FALSE
      [] x.t = "boolean" -> x.v = "true"
      [] x.t = "number" -> x.v # "0"
      [] x.t = "string" -> x.v # ""
      [] OTHER -> TRUE

(* ------------------------------------------------------------ timestamps *)
\* An ISO-8601 timestamp "YYYY-MM-DDT00:00:00Z" is kept as <<YYYY, MM, DD>>.
T2023 == <<2023, 1, 1>>
T2024 == <<2024, 6, 1>>
T2025 == <<2025, 3, 1>>

\* new Date(iso).getTime(), in days since 1970-01-01 (getTime() is this
\* times 86400000; only differences of two values are ever used).
DateGetTime(iso) ==
    LET y == IF iso[2] <= 2 THEN iso[1] - 1 ELSE iso[1]
        era == y \div 400
        yoe == y - era * 400
        mp == IF iso[2] > 2 THEN iso[2] - 3 ELSE iso[2] + 9
        doy == (153 * mp + 2) \div 5 + iso[3] - 1
        doe == yoe * 365 + yoe \div 4 - yoe \div 100 + doy
    IN  era * 146097 + doe - 719468

(* ------------------------------------------------- X-RateLimit-Reset text *)
\* A header value is the sequence of its decimal digits.
RECURSIVE ToDigits(_)
ToDigits(n) == IF n < 10 THEN <<n>> ELSE Append(ToDigits(n \div 10), n % 10)

RECURSIVE ParseInt(_)
ParseInt(text) ==
    IF Len(text) = 0 THEN 0
    ELSE ParseInt(SubSeq(text, 1, Len(text) - 1)) * 10 + text[Len(text)]

NoHeader == [present |-> FALSE, text |-> <<>>]
Header(text) == [present |-> TRUE, text |-> text]

\* `if (resetTime)`: headers.get gives null when absent, "" is falsy too
HeaderTruthy(h) == h.present /\ Len(h.text) > 0

(* ------------------------------------------------------------------ URLs *)
username == "alice"
baseUrl == "https://api.github.com/users/"

ListUrl == baseUrl \o username \o "/repos"
\* Mutant: the file fetch goes to the repository-listing endpoint.
FileUrlListing(repoName) == ListUrl

FileUrl(repoName) ==
    "https://raw.githubusercontent.com/" \o username \o "/" \o repoName
        \o "/master/" \o filename
RepoUrl(repoName) == "https://github.com/" \o username \o "/" \o repoName

(* ------------------------------------------------------------- upstream *)
\* The user's repositories, in the order the listing endpoint gives them,
\* and when each was created.
RepoNames == <<"proj-a", "proj-b", "proj-c">>
CreatedAt == <<T2023, T2024, T2023>>
UpdatedAts == {T2024, T2025}

RawRepo(i, updated) ==
    [name |-> RepoNames[i], stargazers_count |-> i, forks_count |-> 0,
     created_at |-> CreatedAt[i], updated_at |-> updated,
     html_url |-> RepoUrl(RepoNames[i])]

\* The listings the repository-listing endpoint may answer with.
Listings ==
    UNION { { [i \in 1 .. n |-> RawRepo(i, u[i])] :
                u \in [1 .. n -> UpdatedAts] } :
            n \in 0 .. MaxRepos }

ListingBodies == { Arr(l) : l \in Listings }
\* What a raw-content URL may serve: the JSON document kept at that URL (an
\* object, named after the URL) or a JSON scalar.
FileBodies(url) == {Obj(url), Zero, False, EmptyString, Null}

Response(status, reset, valid, body) ==
    [status |-> status, reset |-> reset, valid |-> valid, body |-> body]

Ok(resp) == resp.status \in 200 .. 299

(* ---------------------------------------------------- fetchWithRateLimit *)
MaxAttempts == 5

\* A 403 that carries no X-RateLimit-Reset header at all.
Bare403(resp) == resp.status = 403 /\ ~resp.reset.present

\* Mutant: every 403 is taken for a rate-limit signal.
IsRateLimitedAny403(resp) == resp.status = 403

\* lines 44-46: the response is a rate-limit signal
IsRateLimited(resp) == resp.status = 403 /\ HeaderTruthy(resp.reset)

\* Mutant: the reset timestamp (seconds) is taken for milliseconds.
RateLimitWaitSeconds(resetTime, t) == ParseInt(resetTime) - t

\* lines 47-48: new Date(parseInt(resetTime) * 1000).getTime() - Date.now()
RateLimitWait(resetTime, t) == ParseInt(resetTime) * 1000 - t

\* Mutant: the rate-limit retry counts as an attempt.
RateLimitAttemptCounted(attempt) == attempt + 1

\* line 55: the attempt the rate-limit retry is made with
RateLimitAttempt(attempt) == attempt

\* Mutant: one attempt more before giving up.
ShouldRetrySix(resp, attempt) == ~Ok(resp) /\ attempt < MaxAttempts + 1

\* line 60
ShouldRetry(resp, attempt) == ~Ok(resp) /\ attempt < MaxAttempts

\* Mutant: linear instead of exponential backoff.
BackoffWaitLinear(attempt) == 2 * attempt * 1000

\* line 61: Math.pow(2, attempt) * 1000
BackoffWait(attempt) == (2 ^ attempt) * 1000

\* line 68: the attempt the backoff retry is made with
BackoffAttempt(attempt) == attempt + 1

\* setTimeout(resolve, waitTime) started at t fires no earlier than this;
\* a negative delay fires at once.
TimerDue(t, waitTime) == t + Max(waitTime, 0)

IdleCall ==
    [pc |-> "idle", url |-> "", attempt |-> 0, next |-> 0, ret |-> Null,
     requests |-> 0, generic |-> 0, limited |-> 0, waits |-> <<>>,
     rlWaits |-> 0, wakeAt |-> 0, reset |-> <<>>, via |-> "none",
     error |-> "none", all403 |-> TRUE]

\* lines 34-41: fetchWithRateLimit(url) issues its first request at once
NewCall(url) ==
    [IdleCall EXCEPT !.pc = "inflight", !.url = url, !.attempt = 1,
                     !.requests = 1]

(* ----------------------------------------------- getRepos and the merges *)
\* lines 85-91
Summary(repo) ==
    [name |-> repo.name, stars |-> repo.stargazers_count,
     forks |-> repo.forks_count, updated_at |-> repo.updated_at,
     url |-> repo.html_url]

\* Mutant: a failed listing yields a placeholder repository.
getReposPlaceholder(data) ==
    IF ~Truthy(data)
    THEN << [name |-> "", stars |-> 0, forks |-> 0, updated_at |-> T2024,
             url |-> ""] >>
    ELSE [i \in 1 .. Len(data.v) |-> Summary(data.v[i])]

\* lines 83-91
getRepos(data) ==
    IF ~Truthy(data) THEN <<>>
    ELSE [i \in 1 .. Len(data.v) |-> Summary(data.v[i])]

\* Mutant: the presence test is dropped.
PresentAlways(projectData) == TRUE

\* lines 115, 134: `if (projectData)`
Present(projectData) == Truthy(projectData)

\* { ...projectData, additionalInformation: info }
Merge(projectData, info) ==
    [t |-> "object", v |-> projectData.v, additionalInformation |-> info]

\* Mutant: single-repository mode returns the metadata whatever the fetch gave.
SingleResultAlways(projectData) ==
    << Merge(projectData, [name |-> reponame, url |-> RepoUrl(reponame)]) >>

\* lines 115-126
SingleResult(projectData) ==
    IF Present(projectData)
    THEN << Merge(projectData,
                  [name |-> reponame, url |-> RepoUrl(reponame)]) >>
    ELSE <<>>

\* Mutant: every content is paired with the first repository's metadata.
FileContentFirstRepo(projectData, repo) ==
    IF Present(projectData) THEN Merge(projectData, repos[1]) ELSE Null

\* lines 133-137: what the map callback resolves to
FileContent(projectData, repo) ==
    IF Present(projectData) THEN Merge(projectData, repo) ELSE Null

\* line 143: filter(Boolean)
FilterBoolean(s) == SelectSeq(s, Truthy)

\* Mutant: the comparator's operands are swapped (oldest first).
CompareAscending(a, b) ==
    DateGetTime(a.additionalInformation.updated_at)
        - DateGetTime(b.additionalInformation.updated_at)

\* lines 145-147: the comparator
Compare(a, b) ==
    DateGetTime(b.additionalInformation.updated_at)
        - DateGetTime(a.additionalInformation.updated_at)

\* Array.prototype.sort (stable): x goes after every element that does not
\* compare greater than it.
RECURSIVE Insert(_, _)

\* Mutant: x goes before the elements it compares equal to (unstable sort).
InsertBeforeEqual(s, x) ==
    IF Len(s) = 0 THEN <<x>>
    ELSE IF Compare(s[Len(s)], x) < 0 THEN Append(s, x)
    ELSE Append(Insert(SubSeq(s, 1, Len(s) - 1), x), s[Len(s)])

Insert(s, x) ==
    IF Len(s) = 0 THEN <<x>>
    ELSE IF Compare(s[Len(s)], x) <= 0 THEN Append(s, x)
    ELSE Append(Insert(SubSeq(s, 1, Len(s) - 1), x), s[Len(s)])

\* Mutant: the sort is left out.
SortOmitted(s) == s

RECURSIVE Sort(_)
Sort(s) ==
    IF Len(s) = 0 THEN <<>>
    ELSE Insert(Sort(SubSeq(s, 1, Len(s) - 1)), s[Len(s)])

\* lines 142-148
AllResult(contents) == Sort(FilterBoolean(contents))

(* -------------------------------------------------------- the operation *)
\* What the upstream has answered so far, over all call chains.
RECURSIVE SumGeneric(_)
SumGeneric(n) == IF n < 0 THEN 0 ELSE call[n].generic + SumGeneric(n - 1)

RECURSIVE SumLimited(_)
SumLimited(n) == IF n < 0 THEN 0 ELSE call[n].limited + SumLimited(n - 1)

TotalGeneric == SumGeneric(MaxRepos)
TotalLimited == SumLimited(MaxRepos)

\* The responses the upstream may give to a request of call f at time t.
Responses(f, t) ==
    { Response(200, NoHeader, TRUE, b) :
        b \in IF f = 0 THEN ListingBodies \cup {Null}
              ELSE FileBodies(call[f].url) }
    \cup { Response(200, NoHeader, FALSE, Null) }
    \cup (IF TotalGeneric < MaxFailures
          THEN { Response(404, NoHeader, TRUE, Null),
                 Response(500, NoHeader, TRUE, Null),
                 Response(403, NoHeader, TRUE, Null),
                 Response(403, Header(<<>>), TRUE, Null) }
          ELSE {})
    \cup (IF TotalLimited < MaxRateLimited
          THEN { Response(403, Header(ToDigits(t \div 1000 + d)), TRUE, Null) :
                    d \in -1 .. MaxResetDelta }
          ELSE {})

StartTime == 1000

Init ==
    /\ reponame \in {"", "proj-a"}
    /\ filename \in {"", "description.json"}
    /\ now = StartTime
    /\ opPc = "new"
    /\ call = [f \in Calls |-> IdleCall]
    /\ repos = <<>>
    /\ result = <<>>
    /\ listerCalls = 0

\* lines 111-114, 130 and 79-82: fetchRepositoryFiles() up to its first await
Start ==
    /\ opPc = "new"
    /\ IF reponame # ""
       THEN /\ opPc' = "single"
            /\ call' = [call EXCEPT ![1] = NewCall(FileUrl(reponame))]
            /\ UNCHANGED listerCalls
       ELSE /\ opPc' = "listing"
            /\ call' = [call EXCEPT ![0] = NewCall(ListUrl)]
            /\ listerCalls' = listerCalls + 1
    /\ UNCHANGED <<reponame, filename, now, repos, result>>

\* Mutant: the fan-out collects the contents in completion order (the fetch
\* that resolved last comes first) instead of in listing order.
ResolvedCompletionOrder(f, c, value) ==
    LET settled == [call EXCEPT ![f] = c] IN
    CASE opPc = "listing" /\ f = 0 ->
            LET rs == getRepos(value) IN
            /\ repos' = rs
            /\ call' = [g \in Calls |->
                          IF g \in 1 .. Len(rs)
                          THEN NewCall(FileUrl(rs[g].name))
                          ELSE settled[g]]
            /\ IF Len(rs) = 0
               THEN opPc' = "returned" /\ result' = AllResult(<<>>)
               ELSE opPc' = "fanout" /\ UNCHANGED result
      [] opPc = "single" /\ f = 1 ->
            /\ call' = settled
            /\ opPc' = "returned"
            /\ result' = SingleResult(value)
            /\ UNCHANGED repos
      [] opPc = "fanout" /\ f \in 1 .. Len(repos) ->
            /\ call' = settled
            /\ IF \A g \in 1 .. Len(repos) : settled[g].pc = "done"
               THEN /\ opPc' = "returned"
                    /\ result' = AllResult(
                          <<FileContent(value, repos[f])>> \o
                          SelectSeq([g \in 1 .. Len(repos) |->
                                       IF g = f THEN Null
                                       ELSE FileContent(settled[g].ret,
                                                        repos[g])],
                                    Truthy))
               ELSE UNCHANGED <<opPc, result>>
            /\ UNCHANGED repos
      [] OTHER ->
            /\ call' = settled
            /\ UNCHANGED <<opPc, result, repos>>

\* The rest of fetchRepositoryFiles once call f, now in state c, has resolved
\* with value: lines 83-91 and 130-139 after getRepos' fetch, lines 115-126
\* in single-repository mode, lines 131-148 when the last file fetch of the
\* fan-out resolves.
Resolved(f, c, value) ==
    LET settled == [call EXCEPT ![f] = c] IN
    CASE opPc = "listing" /\ f = 0 ->
            LET rs == getRepos(value) IN
            /\ repos' = rs
            /\ call' = [g \in Calls |->
                          IF g \in 1 .. Len(rs)
                          THEN NewCall(FileUrl(rs[g].name))
                          ELSE settled[g]]
            /\ IF Len(rs) = 0
               THEN opPc' = "returned" /\ result' = AllResult(<<>>)
               ELSE opPc' = "fanout" /\ UNCHANGED result
      [] opPc = "single" /\ f = 1 ->
            /\ call' = settled
            /\ opPc' = "returned"
            /\ result' = SingleResult(value)
            /\ UNCHANGED repos
      [] opPc = "fanout" /\ f \in 1 .. Len(repos) ->
            /\ call' = settled
            /\ IF \A g \in 1 .. Len(repos) : settled[g].pc = "done"
               THEN /\ opPc' = "returned"
                    /\ result' = AllResult([g \in 1 .. Len(repos) |->
                                   FileContent(settled[g].ret, repos[g])])
               ELSE UNCHANGED <<opPc, result>>
            /\ UNCHANGED repos
      [] OTHER ->
            /\ call' = settled
            /\ UNCHANGED <<opPc, result, repos>>

\* Call f rejects: nothing in getRepos, fetchProjectDetails, the map callback,
\* Promise.all or fetchRepositoryFiles catches, so the operation rejects if it
\* is still running.
Rejected(f, c) ==
    /\ call' = [call EXCEPT ![f] = c]
    /\ opPc' = IF opPc \in {"listing", "single", "fanout"} THEN "rejected"
               ELSE opPc
    /\ UNCHANGED <<result, repos>>

\* lines 41-71: the response to the request in flight arrives
Handle(f, resp) ==
    LET c == call[f] IN
    IF IsRateLimited(resp)
    THEN LET waitTime == RateLimitWait(resp.reset.text, now) IN
         /\ call' = [call EXCEPT ![f] =
                [c EXCEPT !.pc = "ratewait",
                          !.next = RateLimitAttempt(c.attempt),
                          !.wakeAt = TimerDue(now, waitTime),
                          !.reset = resp.reset.text,
                          !.limited = @ + 1,
                          !.rlWaits = @ + 1,
                          !.all403 = @ /\ Bare403(resp)]]
         /\ UNCHANGED <<opPc, result, repos>>
    ELSE IF ShouldRetry(resp, c.attempt)
    THEN LET waitTime == BackoffWait(c.attempt) IN
         /\ call' = [call EXCEPT ![f] =
                [c EXCEPT !.pc = "backoff",
                          !.next = BackoffAttempt(c.attempt),
                          !.wakeAt = TimerDue(now, waitTime),
                          !.generic = @ + 1,
                          !.waits = Append(@, waitTime),
                          !.all403 = @ /\ Bare403(resp)]]
         /\ UNCHANGED <<opPc, result, repos>>
    ELSE IF Ok(resp)
    THEN IF resp.valid
         THEN Resolved(f, [c EXCEPT !.pc = "done", !.ret = resp.body,
                                    !.via = "body",
                                    !.all403 = @ /\ Bare403(resp)],
                       resp.body)
         ELSE Rejected(f, [c EXCEPT !.pc = "threw", !.error = "SyntaxError",
                                    !.all403 = @ /\ Bare403(resp)])
    ELSE Resolved(f, [c EXCEPT !.pc = "done", !.ret = Null,
                               !.via = "absence", !.generic = @ + 1,
                               !.all403 = @ /\ Bare403(resp)], Null)

Respond(f) ==
    /\ call[f].pc = "inflight"
    /\ \E resp \in Responses(f, now) : Handle(f, resp)
    /\ UNCHANGED <<reponame, filename, now, listerCalls>>

\* line 41: fetch() itself rejects (network error)
NetworkError(f) ==
    /\ call[f].pc = "inflight"
    /\ Rejected(f, [call[f] EXCEPT !.pc = "threw", !.error = "TypeError",
                                   !.all403 = FALSE])
    /\ UNCHANGED <<reponame, filename, now, listerCalls>>

\* lines 54-55 and 67-68: the timer fires and the recursive call issues the
\* next request.  The event loop runs the timers in the order they fall due.
Sleeping(f) == call[f].pc \in {"ratewait", "backoff"}

Retry(f) ==
    /\ Sleeping(f)
    /\ \A g \in Calls : Sleeping(g) => call[f].wakeAt <= call[g].wakeAt
    /\ now' = Max(now, call[f].wakeAt)
    /\ call' = [call EXCEPT ![f] =
            [@ EXCEPT !.pc = "inflight", !.attempt = call[f].next,
                      !.requests = @ + 1, !.wakeAt = 0, !.reset = <<>>]]
    /\ UNCHANGED <<reponame, filename, opPc, repos, result, listerCalls>>

Next ==
    \/ Start
    \/ \E f \in Calls : Respond(f)
    \/ \E f \in Calls : NetworkError(f)
    \/ \E f \in Calls : Retry(f)

Spec == Init /\ [][Next]_vars

\* Single-repository mode alone: one call chain, for the named repository.
InitFetch == Init /\ reponame # ""

NextFetch ==
    \/ Start
    \/ Respond(1)
    \/ NetworkError(1)
    \/ Retry(1)

SpecFetch == InitFetch /\ [][NextFetch]_vars

\* An upstream that answers every request and never sends a rate-limited
\* response, but fails as often as it likes.  A file is served as its
\* document or as JSON null.
ResponsesNoRateLimit(f) ==
    { Response(200, NoHeader, TRUE, b) :
        b \in IF f = 0 THEN ListingBodies \cup {Null}
              ELSE {Obj(call[f].url), Null} }
    \cup { Response(200, NoHeader, FALSE, Null),
           Response(404, NoHeader, TRUE, Null),
           Response(500, NoHeader, TRUE, Null),
           Response(403, NoHeader, TRUE, Null),
           Response(403, Header(<<>>), TRUE, Null) }

RespondNoRateLimit(f) ==
    /\ call[f].pc = "inflight"
    /\ \E resp \in ResponsesNoRateLimit(f) : Handle(f, resp)
    /\ UNCHANGED <<reponame, filename, now, listerCalls>>

NextNoRateLimit ==
    \/ Start
    \/ \E f \in Calls : RespondNoRateLimit(f)
    \/ \E f \in Calls : Retry(f)

\* Every request in flight is answered and every timer set fires.
SpecNoRateLimit ==
    /\ Init /\ [][NextNoRateLimit]_vars
    /\ \A f \in Calls : WF_vars(RespondNoRateLimit(f)) /\ WF_vars(Retry(f))

(* ---------------------------------------------------------------- claims *)
FileCalls == 1 .. Len(repos)
AbsentCalls == { g \in FileCalls : call[g].via = "absence" }
SucceededCalls == { g \in FileCalls : call[g].via = "body" }
AllModeReturned == reponame = "" /\ opPc = "returned"
UpdatedAt(entry) == DateGetTime(entry.additionalInformation.updated_at)
NameOf(entry) == entry.additionalInformation.name
Schedule == <<2000, 4000, 8000, 16000>>

\* C1: fetchRepositoryFiles never propagates an exception or a rejected
\* promise to its caller, whatever the upstream does, in either mode.
C1_NeverRejects == opPc # "rejected"

\* C2 (as stated): in all-repositories mode with a non-empty filename and N
\* listed repositories, if exactly one file fetch ends in absence and the other
\* N-1 succeed, the result has exactly N-1 entries, none of the failed
\* repository.
C2_FaultIsolation ==
    ( /\ AllModeReturned /\ filename # "" /\ Len(repos) >= 1
      /\ Cardinality(AbsentCalls) = 1
      /\ Cardinality(SucceededCalls) = Len(repos) - 1 )
    => /\ Len(result) = Len(repos) - 1
       /\ \A i \in 1 .. Len(result) :
            \A g \in AbsentCalls : NameOf(result[i]) # repos[g].name

\* C2 (amended): ... and the other N-1 succeed with truthy content (any JSON
\* object or array), the result has exactly N-1 entries, one for each
\* repository that succeeded and none for the failed one.
C2_FaultIsolationTruthy ==
    ( /\ AllModeReturned /\ filename # "" /\ Len(repos) >= 1
      /\ Cardinality(AbsentCalls) = 1
      /\ Cardinality(SucceededCalls) = Len(repos) - 1
      /\ \A g \in SucceededCalls : Truthy(call[g].ret) )
    => /\ Len(result) = Len(repos) - 1
       /\ \A i \in 1 .. Len(result) :
            /\ \A g \in AbsentCalls : NameOf(result[i]) # repos[g].name
            /\ \E g \in SucceededCalls : result[i].additionalInformation = repos[g]

C2_Witness ==
    /\ AllModeReturned /\ filename # "" /\ Len(repos) = 2
    /\ AbsentCalls = {1}
    /\ SucceededCalls = {2} /\ Truthy(call[2].ret)
    /\ Len(result) = 1 /\ NameOf(result[1]) = "proj-b"

\* C3: a call chain that only ever sees non-rate-limited failures issues
\* exactly 5 requests and then returns null; the waits between the requests
\* are 2, 4, 8 and 16 seconds in that order, with none after the 5th request.
C3_BackoffSchedule ==
    \A f \in Calls : call[f].limited = 0 =>
        /\ call[f].requests <= 5
        /\ Len(call[f].waits) <= 4
        /\ call[f].waits = SubSeq(Schedule, 1, Len(call[f].waits))
        /\ call[f].generic >= 5 => call[f].via = "absence"
        /\ call[f].via = "absence" =>
              /\ call[f].pc = "done"
              /\ call[f].requests = 5
              /\ call[f].waits = Schedule
              /\ call[f].ret = Null

C3_Witness ==
    \E f \in Calls :
        /\ call[f].limited = 0 /\ call[f].via = "absence"
        /\ call[f].requests = 5 /\ call[f].waits = Schedule

\* C4: rate-limited responses never consume the retry budget and never
\* produce absence: a rate-limit retry keeps the attempt counter, the attempt
\* counter is always one more than the generic failures seen, and the chain
\* returns absence only on its 5th generic failure, however many rate-limited
\* responses it saw.
C4_RateLimitNotCounted ==
    \A f \in Calls :
        /\ call[f].pc = "ratewait" => call[f].next = call[f].attempt
        /\ call[f].pc \in {"inflight", "ratewait"} =>
              call[f].attempt = call[f].generic + 1
        /\ call[f].via = "absence" => call[f].generic = 5
        /\ call[f].requests <= 5 + call[f].limited

C4_Witness ==
    \E f \in Calls :
        /\ call[f].via = "absence" /\ call[f].limited >= 1
        /\ call[f].requests = 5 + call[f].limited

\* C5: after a 403 whose reset timestamp lies T seconds ahead, the request is
\* not re-issued before the reset time (at least T seconds after the 403);
\* each rate-limited response is followed by exactly one wait and one
\* re-issued request, and a successful response after it is what the chain
\* returns.
C5_RateLimitWait ==
    /\ [](\A f \in Calls :
            /\ call[f].rlWaits = call[f].limited
            /\ call[f].pc = "ratewait" =>
                  call[f].wakeAt >= ParseInt(call[f].reset) * 1000)
    /\ [][\A f \in Calls :
            call[f].pc = "ratewait" /\ call'[f] # call[f] =>
                /\ call'[f].pc = "inflight"
                /\ now' >= ParseInt(call[f].reset) * 1000
                /\ call'[f].requests = call[f].requests + 1
                /\ call'[f].rlWaits = call[f].rlWaits]_vars

C5_Witness ==
    \E f \in Calls :
        /\ call[f].limited = 1 /\ call[f].rlWaits = 1 /\ call[f].requests = 2
        /\ call[f].via = "body" /\ Truthy(call[f].ret)
        /\ now >= StartTime + 1000

\* C6: in single-repository mode, a file fetch that ends in absence gives an
\* empty result; the result has one element only when the file content is
\* present, and that element carries the content.
C6_SingleAllOrNothing ==
    reponame # "" =>
        /\ listerCalls = 0
        /\ opPc # "returned" => result = <<>>
        /\ opPc = "returned" =>
              /\ call[1].via = "absence" => result = <<>>
              /\ Len(result) <= 1
              /\ Len(result) = 1 =>
                    /\ call[1].via = "body" /\ Truthy(call[1].ret)
                    /\ result[1].v = call[1].ret.v
                    /\ NameOf(result[1]) = reponame

C6_Witness ==
    /\ reponame # "" /\ opPc = "returned"
    /\ call[1].via = "absence" /\ result = <<>>

C8_MetadataOnly ==
    (reponame = "" /\ filename = "") =>
        /\ \A f \in Calls \ {0} : call[f].requests = 0
        /\ opPc = "returned" => Len(result) = Len(repos)

\* C9: in all-repositories mode the Lister is called exactly once per
\* operation; when its fetch ends in absence it yields an empty sequence, the
\* operation returns an empty result and no file request is issued.
C9_ListerOnce ==
    reponame = "" =>
        /\ listerCalls = (IF opPc = "new" THEN 0 ELSE 1)
        /\ call[0].via = "absence" =>
              /\ repos = <<>>
              /\ opPc = "returned"
              /\ result = <<>>
              /\ \A f \in Calls \ {0} : call[f].requests = 0

C9_Witness ==
    /\ reponame = "" /\ listerCalls = 1
    /\ call[0].via = "absence" /\ opPc = "returned" /\ result = <<>>

\* C10 (as stated): results are sorted by creation date, newest first: with
\* proj-a created 2023-01-01 and proj-b created 2024-06-01, both files
\* present, the result is proj-b's record, then proj-a's, whatever the other
\* fields.
TwoProjects ==
    /\ AllModeReturned /\ filename # ""
    /\ call[0].via = "body" /\ call[0].ret.t = "array"
    /\ Len(call[0].ret.v) = 2
    /\ call[0].ret.v[1].name = "proj-a" /\ call[0].ret.v[1].created_at = T2023
    /\ call[0].ret.v[2].name = "proj-b" /\ call[0].ret.v[2].created_at = T2024
    /\ \A g \in {1, 2} : call[g].via = "body" /\ Truthy(call[g].ret)

C11_MalformedIsAbsence ==
    \A f \in Calls : call[f].error = "SyntaxError" =>
        /\ call[f].pc = "done" /\ call[f].ret = Null
        /\ opPc # "rejected"

\* C12: the fan-out is a settle-all join: in all-repositories mode the
\* operation has completed (returned or rejected) only if every per-repository
\* file fetch has settled (resolved or thrown).
C12_SettleAll ==
    (reponame = "" /\ opPc \in {"returned", "rejected"}) =>
        \A g \in FileCalls : call[g].pc \in {"done", "threw"}

\* C13: the sort is stable: two result entries with equal updated_at appear
\* in the order in which their repositories appear in the listing.
ListingIndex(entry) ==
    CHOOSE g \in FileCalls : repos[g] = entry.additionalInformation

C13_StableSort ==
    AllModeReturned =>
        \A i, j \in 1 .. Len(result) :
            (i < j /\ UpdatedAt(result[i]) = UpdatedAt(result[j]))
                => ListingIndex(result[i]) < ListingIndex(result[j])

C13_Witness ==
    /\ AllModeReturned /\ Len(result) = 2
    /\ UpdatedAt(result[1]) = UpdatedAt(result[2])
    /\ NameOf(result[1]) = "proj-a" /\ NameOf(result[2]) = "proj-b"

\* C14: in single-repository mode the Lister is never called and no request
\* goes to the listing endpoint: every request issued, retries included,
\* targets the raw-content URL of the configured file in the named repository.
SingleFileUrl ==
    "https://raw.githubusercontent.com/alice/" \o reponame \o "/master/"
        \o filename

C14_SingleNeverLists ==
    /\ [](reponame # "" =>
            /\ listerCalls = 0
            /\ call[0].requests = 0 /\ call[0].pc = "idle"
            /\ \A f \in Calls : call[f].requests > 0 =>
                  f = 1 /\ call[f].url = SingleFileUrl /\ call[f].url # ListUrl)
    /\ [][reponame # "" =>
            \A f \in Calls :
                call'[f].requests > call[f].requests =>
                    /\ call'[f].url = SingleFileUrl
                    /\ call'[f].requests = call[f].requests + 1]_vars

C14_Witness ==
    /\ reponame # "" /\ opPc = "returned" /\ listerCalls = 0
    /\ call[1].requests >= 3 /\ call[1].url = SingleFileUrl
    /\ call[0].requests = 0

\* C15: when the upstream never rate-limits and answers every request, each
\* URL is requested at most 5 times (at most 5 requests in single-repository
\* mode, at most 5*(N+1) with N listed repositories) and the operation, once
\* started, terminates with every call chain settled.
RECURSIVE SumRequests(_)
SumRequests(n) == IF n < 0 THEN 0 ELSE call[n].requests + SumRequests(n - 1)

TotalRequests == SumRequests(MaxRepos)
Settled == \A f \in Calls : call[f].pc \in {"idle", "done", "threw"}

C15_Terminates ==
    /\ [](TotalLimited = 0 =>
            /\ \A f \in Calls : call[f].requests <= 5
            /\ reponame # "" => TotalRequests <= 5
            /\ reponame = "" => TotalRequests <= 5 * (Len(repos) + 1))
    /\ (opPc # "new" ~> (opPc \in {"returned", "rejected"} /\ Settled))

C15_Witness ==
    /\ reponame = "" /\ opPc = "returned" /\ Settled /\ TotalLimited = 0
    /\ Len(repos) = 2 /\ call[1].requests = 5 /\ call[2].requests = 5

\* C16: a 403 without an X-RateLimit-Reset header is a generic failure: a
\* chain whose every response so far was such a 403 has never waited for a
\* rate-limit reset, has counted each response as an attempt, has waited
\* 2^attempt seconds after each of the first four, and returns absence after
\* exactly 5 requests.
Answered(f) ==
    call[f].requests - (IF call[f].pc = "inflight" THEN 1 ELSE 0)

C16_Bare403IsGeneric ==
    \A f \in Calls : (call[f].all403 /\ Answered(f) >= 1) =>
        /\ call[f].pc # "ratewait"
        /\ call[f].limited = 0 /\ call[f].rlWaits = 0
        /\ call[f].generic = Answered(f)
        /\ call[f].requests <= 5
        /\ call[f].waits = SubSeq(Schedule, 1, Len(call[f].waits))
        /\ Answered(f) <= 4 =>
              /\ Len(call[f].waits) = Answered(f)
              /\ call[f].pc \in {"backoff", "inflight"}
              /\ call[f].pc = "backoff" => call[f].next = call[f].attempt + 1
              /\ call[f].pc = "inflight" => call[f].attempt = Answered(f) + 1
        /\ Answered(f) = 5 =>
              /\ call[f].pc = "done" /\ call[f].via = "absence"
              /\ call[f].ret = Null /\ call[f].waits = Schedule

C16_Witness ==
    \E f \in Calls :
        /\ call[f].all403 /\ call[f].requests = 5
        /\ call[f].via = "absence" /\ call[f].waits = Schedule

\* C17: the result of all-repositories mode is a function of the listing and
\* of what each file fetch resolved to, whatever the interleaving: it holds
\* one entry per repository whose content is present, and the entry of
\* repository g stands after exactly those of the repositories updated later
\* than g or updated at the same time and listed before g.
PresentCalls ==
    { g \in FileCalls : call[g].via = "body" /\ Truthy(call[g].ret) }

Precedes(h, g) ==
    \/ DateGetTime(repos[h].updated_at) > DateGetTime(repos[g].updated_at)
    \/ /\ DateGetTime(repos[h].updated_at) = DateGetTime(repos[g].updated_at)
       /\ h < g

Rank(g) == Cardinality({ h \in PresentCalls : Precedes(h, g) }) + 1

C17_OrderIndependent ==
    /\ AllModeReturned =>
          /\ \A g \in FileCalls : call[g].pc = "done"
          /\ Len(result) = Cardinality(PresentCalls)
          /\ \A g \in PresentCalls :
                result[Rank(g)] =
                    [t |-> "object", v |-> call[g].ret.v,
                     additionalInformation |-> repos[g]]
    /\ reponame = "" =>
          (opPc = "rejected" <=> \E f \in Calls : call[f].pc = "threw")

\* The first repository's fetch needed a rate-limit wait and a backoff, the
\* second one's a single request, and the first is still listed first.
C17_Witness ==
    /\ AllModeReturned /\ Len(result) = 2
    /\ call[1].requests = 3 /\ call[1].limited = 1 /\ call[2].requests = 1
    /\ repos[1].updated_at = repos[2].updated_at
    /\ NameOf(result[1]) = "proj-a" /\ NameOf(result[2]) = "proj-b"

\* C18: in all-repositories mode the result is never longer than the listing,
\* no two entries belong to the same repository, and every entry pairs the
\* summary of a listed repository with the content fetched from that very
\* repository's raw-content URL by a fetch that did not end in absence.
RawUrlOf(name) ==
    "https://raw.githubusercontent.com/alice/" \o name \o "/master/"
        \o filename

C18_EntryPairsOwnMetadata ==
    AllModeReturned =>
        /\ Len(result) <= Len(repos)
        /\ Len(repos) = (IF call[0].ret.t = "array"
                         THEN Len(call[0].ret.v) ELSE 0)
        /\ \A i, j \in 1 .. Len(result) :
              i # j => NameOf(result[i]) # NameOf(result[j])
        /\ \A i \in 1 .. Len(result) :
              \E g \in FileCalls :
                  /\ result[i].additionalInformation = repos[g]
                  /\ repos[g].name = call[0].ret.v[g].name
                  /\ repos[g].updated_at = call[0].ret.v[g].updated_at
                  /\ call[g].via = "body"
                  /\ call[g].url = RawUrlOf(repos[g].name)
                  /\ result[i].v = call[g].ret.v
                  /\ result[i].v = RawUrlOf(NameOf(result[i]))

C18_Witness ==
    /\ AllModeReturned /\ Len(repos) = 2 /\ Len(result) = 2
    /\ NameOf(result[1]) = "proj-b" /\ result[1].v = RawUrlOf("proj-b")
    /\ NameOf(result[2]) = "proj-a" /\ result[2].v = RawUrlOf("proj-a")
    /\ call[2].requests > call[1].requests

\* C19: presence of content is decided by truthiness: a file fetch that
\* succeeds with the body null, false, 0 or "" is treated like absence (its
\* repository has no entry; single-repository mode returns the empty
\* sequence), and every entry of every result carries a payload that came
\* from a truthy body.
Falsy == {Null, False, Zero, EmptyString}

C19_TruthyPayloadOnly ==
    opPc = "returned" =>
        /\ reponame # "" =>
              /\ call[1].ret \in Falsy => result = <<>>
              /\ Len(result) = 1 =>
                    /\ call[1].ret \notin Falsy
                    /\ result[1].v = call[1].ret.v
        /\ reponame = "" =>
              /\ \A g \in FileCalls : call[g].ret \in Falsy =>
                    \A i \in 1 .. Len(result) :
                        NameOf(result[i]) # repos[g].name
              /\ \A i \in 1 .. Len(result) :
                    \E g \in FileCalls :
                        /\ NameOf(result[i]) = repos[g].name
                        /\ call[g].ret \notin Falsy
                        /\ result[i].v = call[g].ret.v
              /\ Len(result) =
                    Cardinality({ g \in FileCalls : call[g].ret \notin Falsy })

\* Two fetches succeed, with the bodies false and "", and leave no entry.
C19_Witness ==
    /\ AllModeReturned /\ Len(repos) = 2 /\ result = <<>>
    /\ call[1].via = "body" /\ call[1].ret = False
    /\ call[2].via = "body" /\ call[2].ret = EmptyString

====
